---- MODULE Spec2Model ----
(***************************************************************************)
(* The 1-D Kalman filter simulator of src/src/main.rs: the KalmanFilter    *)
(* estimator (new / predict / update) and the simulate loop that drives it. *)
(*                                                                         *)
(* Every number of the program is an f64.  The model keeps IEEE-754        *)
(* binary floating point (round to nearest, ties to even, gradual          *)
(* underflow, overflow to infinity, NaN) but at a reduced width: MantBits  *)
(* bits of significand instead of 53 and a largest exponent of ExpMax.     *)
(* A finite float is the integer count of quanta it holds, the quantum     *)
(* being the smallest subnormal; 1.0 is One quanta.  The two infinities    *)
(* and NaN are the integers PInf, NInf and NaN, outside the finite range.  *)
(* Zero is unsigned: the parameters are never -0.0 and the two divisors of *)
(* the program (dt and p + r) are then never -0.0 either.                  *)
(***************************************************************************)
EXTENDS Integers, Sequences, FiniteSets, TLC

\* ------------------------------------------------------------ bounds
\* Significand width of the modelled float (53 for f64).
MantBits == 3
\* Largest binary exponent of a quantum multiple (the f64 exponent range).
ExpMax == 5
\* log2 of the number of quanta in 1.0.
FracBits == 4
\* Width of usize (64 on the usual targets).
UsizeBits == 6
\* The loop is followed for at most this many iterations.
MaxTicks == 3

\* ------------------------------------------------------------ f64
One == 2 ^ FracBits
MaxFinite == (2 ^ MantBits - 1) * 2 ^ ExpMax
PInf == MaxFinite + 1
NInf == -PInf
NaN == PInf + 1

IsNaN(x) == x = NaN
IsFinite(x) == x >= -MaxFinite /\ x <= MaxFinite
Abs(n) == IF n < 0 THEN -n ELSE n
Sign(n) == IF n < 0 THEN -1 ELSE 1

\* IEEE comparisons: every comparison with NaN is false.
FLt(x, y) == ~IsNaN(x) /\ ~IsNaN(y) /\ x < y
FLe(x, y) == ~IsNaN(x) /\ ~IsNaN(y) /\ x <= y
FEq(x, y) == ~IsNaN(x) /\ ~IsNaN(y) /\ x = y

\* a / b (a >= 0, b > 0) rounded to the nearest integer, ties to even.
RoundHalfEven(a, b) ==
    LET qq == a \div b
        rem == a % b
    IN  IF 2 * rem < b THEN qq
        ELSE IF 2 * rem > b THEN qq + 1
        ELSE IF qq % 2 = 0 THEN qq ELSE qq + 1

\* The float nearest to the exact non-negative rational a / b quanta.
RoundAbs(a, b) ==
    IF a >= 2 ^ (MantBits + ExpMax) * b THEN PInf
    ELSE LET e == CHOOSE k \in 0..ExpMax :
                     /\ a < 2 ^ (MantBits + k) * b
                     /\ (k = 0 \/ a >= 2 ^ (MantBits + k - 1) * b)
             v == RoundHalfEven(a, b * 2 ^ e) * 2 ^ e
         IN  IF v > MaxFinite THEN PInf ELSE v

\* The float nearest to the exact rational a / b quanta (b > 0).
Round(a, b) == IF a < 0 THEN -RoundAbs(-a, b) ELSE RoundAbs(a, b)

FNeg(x) == IF IsNaN(x) THEN NaN ELSE -x

FAdd(x, y) ==
    IF IsNaN(x) \/ IsNaN(y) THEN NaN
    ELSE IF ~IsFinite(x) /\ ~IsFinite(y) THEN (IF x = y THEN x ELSE NaN)
    ELSE IF ~IsFinite(x) THEN x
    ELSE IF ~IsFinite(y) THEN y
    ELSE Round(x + y, 1)

FSub(x, y) == FAdd(x, FNeg(y))

FMul(x, y) ==
    IF IsNaN(x) \/ IsNaN(y) THEN NaN
    ELSE IF ~IsFinite(x) \/ ~IsFinite(y)
         THEN (IF x = 0 \/ y = 0 THEN NaN ELSE Sign(x) * Sign(y) * PInf)
    ELSE Round(x * y, One)

FDiv(x, y) ==
    IF IsNaN(x) \/ IsNaN(y) THEN NaN
    ELSE IF ~IsFinite(x)
         THEN (IF ~IsFinite(y) THEN NaN ELSE Sign(x) * Sign(y) * PInf)
    ELSE IF ~IsFinite(y) THEN 0
    ELSE IF y = 0 THEN (IF x = 0 THEN NaN ELSE Sign(x) * PInf)
    ELSE Round(Sign(y) * x * One, Abs(y))

\* `as usize`: truncation toward zero, saturating; NaN becomes 0.
UsizeMax == 2 ^ UsizeBits - 1
AsUsize(x) ==
    IF IsNaN(x) \/ x <= 0 THEN 0
    ELSE IF x = PInf \/ x \div One > UsizeMax THEN UsizeMax
    ELSE x \div One

\* `as f64` of a usize.
AsF64(n) == Round(n * One, 1)

\* n quanta is a finite float: rounding leaves it as it is.
IsFloat(n) == IsFinite(n) /\ Round(n, 1) = n

\* ------------------------------------------------------------ parameters
\* The arguments simulate is called with (main passes 10.0, 0.1, 1.0, 2.0,
\* 4.0, 0.01), in quanta; each set holds valid and invalid values.
\* Ulp1 is the gap between 1.0 and the next float (2^-52 for f64), Huge the
\* largest power of two (2^1023 for f64).
Ulp1 == 2 ^ (FracBits - MantBits + 1)
Huge == 2 ^ (MantBits - 1 + ExpMax)
TotalTimes == {-One, 0, One, One + One \div 2, 2 * One, 3 * One + 2 * Ulp1}
Dts == {-One, 0, One, One + Ulp1}
Velocities == {One, One + Ulp1}
SensorNoises == {0, 2}
Rs == {-One, 0, One \div 4, Huge}
Qs == {0, One \div 4, Huge}

VARIABLES
    total_time, dt, velocity, sensor_noise_stddev, r, q,  \* simulate's arguments
    pc,                 \* where simulate is
    steps, step,        \* the loop's bound and counter
    true_position,
    kalman,             \* the KalmanFilter: [x, v, p, r, q, k]
    time, noise, measured_position,   \* the locals of one iteration
    result              \* SimulateResult: [ticks]

args == <<total_time, dt, velocity, sensor_noise_stddev, r, q>>
vars == <<total_time, dt, velocity, sensor_noise_stddev, r, q, pc, steps, step,
          true_position, kalman, time, noise, measured_position, result>>

\* ------------------------------------------------------------ KalmanFilter
\* KalmanFilter::new
New(initial_position, initial_velocity, rr, qq) ==
    [x |-> initial_position, v |-> initial_velocity,
     p |-> One, r |-> rr, q |-> qq, k |-> 0]

\* predict with the process noise subtracted instead of added.
predict_SubtractsQ(self, d) ==
    [self EXCEPT !.x = FAdd(self.x, FMul(self.v, d)),
                 !.p = FSub(self.p, self.q)]

\* predict that also drifts the velocity by the process noise.
predict_DriftsVelocity(self, d) ==
    [self EXCEPT !.x = FAdd(self.x, FMul(self.v, d)),
                 !.v = FAdd(self.v, self.q),
                 !.p = FAdd(self.p, self.q)]

\* KalmanFilter::predict
predict(self, d) ==
    [self EXCEPT !.x = FAdd(self.x, FMul(self.v, d)),
                 !.p = FAdd(self.p, self.q)]

\* update whose gain divides by R alone: K = P / R.
update_GainOverR(self, measured) ==
    LET k1 == FDiv(self.p, self.r)
        x1 == FAdd(self.x, FMul(k1, FSub(measured, self.x)))
        p1 == FMul(self.p, FSub(One, k1))
    IN  [self EXCEPT !.k = k1, !.x = x1, !.p = p1]

\* update that scales P by 1 + K instead of 1 - K.
update_ExpandsP(self, measured) ==
    LET k1 == FDiv(self.p, FAdd(self.p, self.r))
        x1 == FAdd(self.x, FMul(k1, FSub(measured, self.x)))
        p1 == FMul(self.p, FAdd(One, k1))
    IN  [self EXCEPT !.k = k1, !.x = x1, !.p = p1]

\* KalmanFilter::update
update(self, measured) ==
    LET k1 == FDiv(self.p, FAdd(self.p, self.r))
        x1 == FAdd(self.x, FMul(k1, FSub(measured, self.x)))
        p1 == FMul(self.p, FSub(One, k1))
    IN  [self EXCEPT !.k = k1, !.x = x1, !.p = p1]

\* ------------------------------------------------------------ simulate
\* let steps = (total_time / dt) as usize;
StepCount(tt, d) == AsUsize(FDiv(tt, d))

\* The loop with an inclusive range, 0..=steps.
LoopContinuesInclusive(i, n) == i <= n

\* for step in 0..steps
LoopContinues(i, n) == i < n

\* The time of the end of the step, (step + 1) * dt.
TickTimeAtStepEnd(i, d) == FMul(AsF64(i + 1), d)

\* let time = step as f64 * dt;
TickTime(i, d) == FMul(AsF64(i), d)

\* true_position += velocity * dt;
Advance(pos, v, d) == FAdd(pos, FMul(v, d))

\* gen_range over the closed range low..=high.
GenRangeInclusive(low, high) == {n \in low..high : IsFloat(n)}

\* rng.gen_range(low..high) of the rand crate: panics when the range is empty
\* (not low < high) or its width overflows, and otherwise returns some float
\* of the half-open range [low, high).
GenRangePanics(low, high) == ~FLt(low, high) \/ ~IsFinite(FSub(high, low))
GenRange(low, high) == {n \in low..(high - 1) : IsFloat(n)}

\* let measured_position = true_position + noise;
Measure(pos, n) == FAdd(pos, n)

\* The SimulateTick pushed at the end of an iteration.
Tick(t, pos, measured, estimated) ==
    [true_positions |-> <<t, pos>>,
     measured_positions |-> <<t, measured>>,
     estimated_positions |-> <<t, estimated>>]

Init ==
    /\ total_time \in TotalTimes
    /\ dt \in Dts
    /\ velocity \in Velocities
    /\ sensor_noise_stddev \in SensorNoises
    /\ r \in Rs
    /\ q \in Qs
    /\ pc = "start"
    /\ steps = 0
    /\ step = 0
    /\ true_position = 0
    /\ kalman = [x |-> 0, v |-> 0, p |-> 0, r |-> 0, q |-> 0, k |-> 0]
    /\ time = 0
    /\ noise = 0
    /\ measured_position = 0
    /\ result = [ticks |-> <<>>]

\* Lines 74-82: the step count, the filter, the empty result.
Start ==
    /\ pc = "start"
    /\ steps' = StepCount(total_time, dt)
    /\ true_position' = 0
    /\ kalman' = New(0, velocity, r, q)
    /\ result' = [ticks |-> <<>>]
    /\ step' = 0
    /\ pc' = "loop"
    /\ UNCHANGED <<args, time, noise, measured_position>>

\* Lines 85-90 when gen_range returns: time, ground truth, noise, measurement.
Sample ==
    /\ pc = "loop"
    /\ LoopContinues(step, steps)
    /\ step < MaxTicks
    /\ ~GenRangePanics(FNeg(sensor_noise_stddev), sensor_noise_stddev)
    /\ time' = TickTime(step, dt)
    /\ true_position' = Advance(true_position, velocity, dt)
    /\ \E n \in GenRange(FNeg(sensor_noise_stddev), sensor_noise_stddev) :
          /\ noise' = n
          /\ measured_position' = Measure(true_position', n)
    /\ pc' = "predict"
    /\ UNCHANGED <<args, steps, step, kalman, result>>

\* Lines 85-89 when gen_range panics: the call never returns.
SamplePanic ==
    /\ pc = "loop"
    /\ LoopContinues(step, steps)
    /\ step < MaxTicks
    /\ GenRangePanics(FNeg(sensor_noise_stddev), sensor_noise_stddev)
    /\ time' = TickTime(step, dt)
    /\ true_position' = Advance(true_position, velocity, dt)
    /\ pc' = "panic"
    /\ UNCHANGED <<args, steps, step, kalman, noise, measured_position, result>>

\* Line 92.
Predict ==
    /\ pc = "predict"
    /\ kalman' = predict(kalman, dt)
    /\ pc' = "update"
    /\ UNCHANGED <<args, steps, step, true_position, time, noise,
                   measured_position, result>>

\* Line 93.
Update ==
    /\ pc = "update"
    /\ kalman' = update(kalman, measured_position)
    /\ pc' = "push"
    /\ UNCHANGED <<args, steps, step, true_position, time, noise,
                   measured_position, result>>

\* Lines 95-101, and the loop's increment.
Push ==
    /\ pc = "push"
    /\ result' = [result EXCEPT !.ticks =
                    Append(@, Tick(time, true_position, measured_position, kalman.x))]
    /\ step' = step + 1
    /\ pc' = "loop"
    /\ UNCHANGED <<args, steps, true_position, kalman, time, noise,
                   measured_position>>

\* Line 104: the loop is over and the result is returned.
Return ==
    /\ pc = "loop"
    /\ ~LoopContinues(step, steps)
    /\ pc' = "done"
    /\ UNCHANGED <<args, steps, step, true_position, kalman, time, noise,
                   measured_position, result>>

Next == Start \/ Sample \/ SamplePanic \/ Predict \/ Update \/ Push \/ Return

Spec == Init /\ [][Next]_vars

TypeOK ==
    /\ pc \in {"start", "loop", "predict", "update", "push", "done", "panic"}
    /\ steps \in 0..UsizeMax
    /\ step \in 0..MaxTicks
    /\ Len(result.ticks) = step

\* ------------------------------------------------------------ properties
\* The estimator's preconditions on the noise model: R > 0 and Q >= 0.
ValidNoiseModel == FLt(0, r) /\ FLe(0, q)
\* simulate's preconditions: totalTime > 0 and dt > 0.
ValidTimeStep == FLt(0, total_time) /\ FLt(0, dt)
InUnitInterval(k) == FLe(0, k) /\ FLe(k, One)
Ticks == result.ticks
\* The iteration has drawn its noise and measurement.
Sampled == pc \in {"predict", "update", "push"}

\* C1 as stated: for totalTime > 0 and dt > 0 the returned result holds exactly
\* floor(totalTime / dt) tick records, the quotient being the exact one.
C1_FloorOfExactQuotient ==
    (pc = "done" /\ ValidTimeStep) => Len(Ticks) = total_time \div dt

\* C1 amended: the returned result holds the f64 quotient totalTime / dt truncated
\* to an integer: floor(totalTime / dt), or that plus one when the division rounds
\* the quotient up onto the next integer; totalTime = dt gives 1 tick and
\* dt <= totalTime < 2 * dt gives 1 tick.
C1_TruncatedRoundedQuotient ==
    (pc = "done" /\ ValidTimeStep) =>
        LET n == Len(Ticks)
            fl == total_time \div dt
        IN  /\ \/ n = fl /\ FDiv(total_time, dt) < (fl + 1) * One
               \/ n = fl + 1 /\ FDiv(total_time, dt) = (fl + 1) * One
            /\ total_time % dt = 0 => n = fl
            /\ total_time = dt => n = 1
            /\ (dt <= total_time /\ total_time < 2 * dt) => n = 1

\* C1 witness: a run returned one tick more than the exact floor.
C1_Witness ==
    /\ pc = "done" /\ ValidTimeStep
    /\ Len(Ticks) = total_time \div dt + 1

\* C2 as stated: with R > 0 and Q >= 0 every gain update computes is in [0, 1].
C2_GainInUnitInterval ==
    [][(pc = "update" /\ ValidNoiseModel) => InUnitInterval(kalman'.k)]_vars

\* C2 amended: with R > 0 and Q >= 0, every gain update computes from a finite P
\* (no predict has overflowed P to infinity) is in [0, 1].
C2_GainInUnitIntervalWhileFinite ==
    [][(pc = "update" /\ ValidNoiseModel /\ IsFinite(kalman.p))
          => InUnitInterval(kalman'.k)]_vars

\* C2 witness: update has computed a gain strictly between 0 and 1.
C2_Witness ==
    /\ pc = "push" /\ ValidNoiseModel
    /\ FLt(0, kalman.k) /\ FLt(kalman.k, One)

\* C3 as stated: with R > 0 and Q >= 0 the P left by update is <= the P left by
\* the predict of the same tick.
C3_UpdateContracts ==
    [][(pc = "update" /\ ValidNoiseModel) => FLe(kalman'.p, kalman.p)]_vars

\* C3 amended: with R > 0 and Q >= 0 the P left by update is <= the P left by the
\* predict of the same tick whenever that predict left P finite.
C3_UpdateContractsWhileFinite ==
    [][(pc = "update" /\ ValidNoiseModel /\ IsFinite(kalman.p))
          => FLe(kalman'.p, kalman.p)]_vars

\* C3 witness: update has run with a positive gain on a positive P, so P shrank.
C3_Witness ==
    /\ pc = "push" /\ ValidNoiseModel
    /\ FLt(0, kalman.k) /\ FLt(0, kalman.p) /\ IsFinite(kalman.p)

\* C4 as stated: with R > 0 and Q >= 0, P >= 0 in every state of the estimator.
C4_CovarianceNonNegative ==
    (pc # "start" /\ ValidNoiseModel) => FLe(0, kalman.p)

\* C4 amended: with R > 0 and Q >= 0, P >= 0 after construction and after every
\* predict or update that starts from a finite P (an update that starts from an
\* overflowed P leaves NaN).
C4_CovarianceNonNegativeWhileFinite ==
    [][(ValidNoiseModel /\ IsFinite(kalman.p)) => FLe(0, kalman'.p)]_vars

\* C4 witness: after a predict and an update with Q > 0, P is finite and positive.
C4_Witness ==
    /\ pc = "push" /\ ValidNoiseModel /\ FLt(0, q)
    /\ step >= 1 /\ IsFinite(kalman.p) /\ FLt(0, kalman.p)

\* C5: a call with dt <= 0 or totalTime <= 0 is rejected before the loop: it
\* never gets past its entry, runs no predict or update and records no tick.
C5_InvalidTimeStepRejected ==
    (FLe(dt, 0) \/ FLe(total_time, 0)) =>
        /\ pc \notin {"predict", "update", "push", "done"}
        /\ Ticks = <<>>

\* C6: a call with R <= 0 is rejected before the filter is constructed, so the
\* filter never exists and update never divides by P + R with R <= 0.
C6_InvalidNoiseModelRejected ==
    FLe(r, 0) => pc = "start"

\* C7: with sensorNoiseStdDev = 0 and valid totalTime, dt and R the run
\* completes and every tick has measuredPosition = truePosition.
C7_ZeroNoiseRunCompletes ==
    (sensor_noise_stddev = 0 /\ ValidTimeStep /\ FLt(0, r)) =>
        /\ pc # "panic"
        /\ \A i \in 1..Len(Ticks) :
              Ticks[i].measured_positions[2] = Ticks[i].true_positions[2]

\* C8 as stated: with sensorNoiseStdDev > 0 the noise and the difference
\* measuredPosition - truePosition are strictly between -sensorNoiseStdDev and
\* +sensorNoiseStdDev.
C8_NoiseInOpenInterval ==
    (Sampled /\ FLt(0, sensor_noise_stddev)) =>
        LET d == FSub(measured_position, true_position)
        IN  /\ FLt(FNeg(sensor_noise_stddev), noise)
            /\ FLt(noise, sensor_noise_stddev)
            /\ FLt(FNeg(sensor_noise_stddev), d)
            /\ FLt(d, sensor_noise_stddev)

\* C8 amended: with sensorNoiseStdDev > 0 the noise is in the half-open interval
\* [-sensorNoiseStdDev, +sensorNoiseStdDev) and measuredPosition is the f64 sum
\* truePosition + noise, so it lies between the f64 sums truePosition -/+
\* sensorNoiseStdDev, in the current iteration and in every tick recorded.
C8_NoiseInHalfOpenInterval ==
    FLt(0, sensor_noise_stddev) =>
        /\ Sampled =>
              /\ FLe(FNeg(sensor_noise_stddev), noise)
              /\ FLt(noise, sensor_noise_stddev)
              /\ measured_position = FAdd(true_position, noise)
        /\ \A i \in 1..Len(Ticks) :
              LET t == Ticks[i].true_positions[2]
                  m == Ticks[i].measured_positions[2]
              IN  /\ FLe(FSub(t, sensor_noise_stddev), m)
                  /\ FLe(m, FAdd(t, sensor_noise_stddev))

\* C8 witness: a tick was recorded whose noise was the lower endpoint itself.
C8_Witness ==
    /\ pc = "push" /\ FLt(0, sensor_noise_stddev)
    /\ noise = FNeg(sensor_noise_stddev)
    /\ measured_position = FSub(true_position, sensor_noise_stddev)

\* The products (i + 1) * velocity * dt of the first n ticks are all exact.
ProductsExact(n) ==
    /\ (velocity * dt) % One = 0
    /\ \A k \in 1..n : /\ IsFloat(k * velocity)
                       /\ IsFloat(k * ((velocity * dt) \div One))

\* C9 as stated: the tick at index i has time = i * dt and
\* truePosition = (i + 1) * velocity * dt (both as f64 products), and its three
\* entries carry the same time.  Ticks[i] is the tick at index i - 1.
C9_TruePositionIsProduct ==
    \A i \in 1..Len(Ticks) :
        /\ Ticks[i].true_positions[1] = FMul(AsF64(i - 1), dt)
        /\ Ticks[i].measured_positions[1] = Ticks[i].true_positions[1]
        /\ Ticks[i].estimated_positions[1] = Ticks[i].true_positions[1]
        /\ Ticks[i].true_positions[2] = FMul(FMul(AsF64(i), velocity), dt)

\* C9 amended: the tick at index i has time = i * dt in all three entries (0 for
\* the first) and a truePosition that is the running f64 sum of i + 1 additions
\* of velocity * dt: velocity * dt for the first tick, the previous tick's
\* truePosition + velocity * dt after it.  It is (i + 1) * velocity * dt when
\* those products are exact.
C9_TruePositionIsRunningSum ==
    \A i \in 1..Len(Ticks) :
        /\ Ticks[i].true_positions[1] = FMul(AsF64(i - 1), dt)
        /\ Ticks[i].measured_positions[1] = Ticks[i].true_positions[1]
        /\ Ticks[i].estimated_positions[1] = Ticks[i].true_positions[1]
        /\ i = 1 => /\ Ticks[i].true_positions[1] = 0
                    /\ Ticks[i].true_positions[2] = FMul(velocity, dt)
        /\ i > 1 => Ticks[i].true_positions[2] =
                        FAdd(Ticks[i - 1].true_positions[2], FMul(velocity, dt))
        /\ ProductsExact(i) =>
              Ticks[i].true_positions[2] = FMul(FMul(AsF64(i), velocity), dt)

\* C9 witness: three ticks are recorded and the third truePosition is not the
\* product 3 * velocity * dt.
C9_Witness ==
    /\ Len(Ticks) >= 3
    /\ Ticks[3].true_positions[2] # FMul(FMul(AsF64(3), velocity), dt)

\* C10: once constructed, the estimator's velocity, R and Q are the values given
\* to the constructor, whatever predict and update calls have run.
C10_VelocityAndNoiseUnchanged ==
    pc # "start" =>
        /\ kalman.v = velocity
        /\ kalman.r = r
        /\ kalman.q = q

\* C10 witness: two ticks have run their predict and update.
C10_Witness ==
    /\ pc = "push" /\ step >= 1
    /\ kalman.v = velocity /\ kalman.x # 0
====
